---- MODULE Spec2Model ----
(***************************************************************************)
(* Transaction confirmation by polling: the recent-signature polling loop, *)
(* the block-height exceedence polling loop, and the race that             *)
(* sendAndPollToConfirmTransaction runs between them.                       *)
(*                                                                         *)
(* Scheduling is the JavaScript event loop: a synchronous block is one     *)
(* step; the continuation of an `await` runs in a later microtask than the *)
(* settlement it waits for; timers are macrotasks and only run when no     *)
(* continuation is pending.                                                *)
(*                                                                         *)
(* The data-structure codecs (bit array, array, bytes, hidden suffix) are  *)
(* pure functions on byte arrays: SpecCodec applies one of them to one     *)
(* input and keeps what it gave.                                           *)
(***************************************************************************)
EXTENDS Integers, Sequences, FiniteSets, TLC

\* ---------------------------------------------------------------- bounds
\* Largest number of fetches one polling loop issues in a behaviour.
MaxFetch == 3

\* Largest number of fetches one strategy of a confirmation race issues.
MaxRaceFetch == 2

\* Largest number of fetches each of two concurrent polling calls issues.
MaxPairFetch == 2

\* Bit arrays take up to MaxBitArraySize bytes.
MaxBitArraySize == 2

\* Booleans of an input array that differ from the others.
MaxFlipped == 1

\* Offsets at which a codec is applied to a buffer.
MaxOffset == 2

\* Items of an input array.
MaxArrayLen == 3

\* ------------------------------------------------------------ value sets
Loops == {"sig", "bh"}

\* "sigCaller"/"bhCaller": the abortSignal a direct caller hands to a polling
\* function; "user": the abortSignal handed to sendAndPollToConfirmTransaction;
\* "race": the signal of the controller the confirmation race owns.
Signals == {"sigCaller", "bhCaller", "user", "race"}

Commitments == {"processed", "confirmed", "finalized"}

TxErrs == {"InstructionError", "InsufficientFunds"}

TransportErrs == {"o no", "timeout"}

\* Values (lastValidBlockHeight) the caller may pass, and heights the node reports.
LastValidBlockHeights == {100, 101}

BlockHeights == 99..102

\* One element of the `value` array of a getSignatureStatuses response: null,
\* or an object with an optional err and an optional confirmationStatus.
NullStatus == [null |-> TRUE, err |-> "none", confirmationStatus |-> "none"]

SignatureStatuses ==
    {NullStatus} \cup [null : {FALSE}, err : {"none"} \cup TxErrs,
                       confirmationStatus : {"none"} \cup Commitments]

\* ---------------------------------------------------------------- errors
MkError(t, cause, h, c) ==
    [type |-> t, cause |-> cause, currentBlockHeight |-> h, lastValidBlockHeight |-> c]

NoError == MkError("none", "none", 0, 0)

\* abortSignal.reason of an aborted signal; `which` tells whose reason it is.
AbortError(which) == MkError("abort", which, 0, 0)

SolanaErrorBlockHeightExceeded(h, c) == MkError("blockHeightExceeded", "none", h, c)

getSolanaErrorFromTransactionError(e) == MkError("transaction", e, 0, 0)

TransportError(e) == MkError("transport", e, 0, 0)

Pending == [state |-> "pending", err |-> NoError]

Resolved == [state |-> "resolved", err |-> NoError]

Rejected(e) == [state |-> "rejected", err |-> e]

\* ----------------------------------------------------------------- state
VARIABLES
    aborted,              \* [Signals -> BOOLEAN]  signal.aborted
    commitment,           \* the commitment the caller asks for
    lastValidBlockHeight, \* the ceiling the caller passes to the block-height loop
    loops,                \* [Loops -> closure of one call of a polling function]
    attempt,              \* state of the confirmation attempt
    sendCount,            \* sendTransaction requests issued
    race,                 \* [state, err, winner]  the promise of the confirmation race
    reported,             \* what sendAndPollToConfirmTransaction settled with
    firstSettled,         \* strategies that settled in the first step in which one settled
    issuedAtOutcome,      \* [Loops -> Nat]  fetches issued when the race settled
    factoryPollingInterval, \* `pollingInterval` of the config that
                          \* sendAndPollToConfirmTransactionFactory was created with
    codec                 \* the codec operation applied, its inputs and what it gave

raceVars == <<attempt, sendCount, race, reported, firstSettled, issuedAtOutcome,
              factoryPollingInterval>>

vars == <<aborted, commitment, lastValidBlockHeight, loops, raceVars, codec>>

\* The closure of a polling function that has not been called yet.
\*   callerOf       callerAbortSignal ("none" before the call)
\*   pc             "idle" | "fetching" | "fetched" | "sleeping" | "done"
\*   ctrlAborted    abortController.signal.aborted
\*   handleAbortReg handleAbort is registered on callerAbortSignal
\*   sleepListeners anonymous abort listeners the sleep race added to callerAbortSignal
\*   removeCalls    calls of callerAbortSignal.removeEventListener('abort', handleAbort)
\*   issued         fetches issued (send() calls)
\*   sleeps         sleeps started (setTimeout calls)
\*   timerFires     sleep timers that fired
\*   results        values the fetches delivered, oldest first
\*   pending        "none" | "value" | "error": settled fetch whose continuation has not run
\*   fetchErr       the error the fetch failed with
\*   outcome        the promise the polling function returned
\*   abortedWhile   pc at the moment callerAbortSignal aborted ("none": it has not)
\*   issuedAtAbort  issued at that moment
\*   requestsAborted network requests that were aborted through the signal they
\*                  were sent with
\*   pollingInterval the `pollingInterval` of the call (0 before the call)
\*   timerDelay     the delay of the last setTimeout of the sleep race
NewLoop ==
    [callerOf |-> "none", pc |-> "idle", ctrlAborted |-> FALSE, handleAbortReg |-> FALSE,
     sleepListeners |-> 0, removeCalls |-> 0, issued |-> 0, sleeps |-> 0, timerFires |-> 0,
     results |-> <<>>, pending |-> "none", fetchErr |-> "none", outcome |-> Pending,
     abortedWhile |-> "none", issuedAtAbort |-> 0, requestsAborted |-> 0,
     pollingInterval |-> 0, timerDelay |-> 0]

RacePending == [state |-> "pending", err |-> NoError, winner |-> "none"]

\* No codec operation has been applied.
NoCodecOp == [op |-> "none"]

\* ------------------------------------------------------- pure functions
\* Rank of a commitment: processed < confirmed < finalized.
Rank(c) == CASE c = "processed" -> 0 [] c = "confirmed" -> 1 [] c = "finalized" -> 2

commitmentComparator(a, b) ==
    IF Rank(a) < Rank(b) THEN -1 ELSE IF Rank(a) > Rank(b) THEN 1 ELSE 0

\* `signatureStatus?.err` is truthy.
StatusHasErr(st) == ~st.null /\ st.err # "none"

\* The test that makes the signature loop return.
StatusConfirmedMutStrict(st, c) ==
    /\ ~st.null
    /\ st.confirmationStatus # "none"
    /\ commitmentComparator(st.confirmationStatus, c) > 0

StatusConfirmed(st, c) ==
    /\ ~st.null
    /\ st.confirmationStatus # "none"
    /\ commitmentComparator(st.confirmationStatus, c) >= 0

\* The loop condition of the block-height loop.
KeepsPollingMutStrict(h, c) == h < c

KeepsPolling(h, c) == h <= c

Last(s) == s[Len(s)]

\* An optional number that was left out of a config object.
NoInterval == -1

\* `defaultPollingInterval = 1000` of the two polling factories.
DefaultPollingInterval == 1000

\* Destructuring `{ key = default }` of a config object: the default applies
\* when the object has no such key or holds undefined under it.
Destructure(config, key, default) ==
    IF key \in DOMAIN config
        THEN IF config[key] = NoInterval THEN default ELSE config[key]
        ELSE default

\* The object sendAndPollToConfirmTransactionFactory hands to each polling
\* factory: { rpc, pollingInterval }.
PollingFactoryConfig(p) == [rpc |-> "rpc", pollingInterval |-> p]

\* The object a direct caller creates a polling factory with: { rpc }.
DirectFactoryConfig == [rpc |-> "rpc"]

\* The first argument of a call of a polling function: neither the direct
\* caller nor the confirmation race passes a pollingInterval.
CallConfig(s) == [abortSignal |-> s]

\* `defaultPollingInterval` in the closure of a polling factory.
defaultPollingInterval(config) ==
    Destructure(config, "defaultPollingInterval", DefaultPollingInterval)

\* `pollingInterval = defaultPollingInterval` of a polling function.
pollingInterval(callConfig, factoryConfig) ==
    Destructure(callConfig, "pollingInterval", defaultPollingInterval(factoryConfig))

\* A continuation is queued: no macrotask (timer) runs before it.
MicrotaskPending ==
    \/ \E l \in Loops : loops[l].pc = "fetched"
    \/ attempt = "Polling" /\ race.state # "pending"

\* ------------------------------------------------------------------ init
Init ==
    /\ aborted = [s \in Signals |-> FALSE]
    /\ commitment \in Commitments
    /\ lastValidBlockHeight \in LastValidBlockHeights
    /\ loops = [l \in Loops |-> NewLoop]
    /\ attempt = "idle"
    /\ sendCount = 0
    /\ race = RacePending
    /\ reported = Pending
    /\ firstSettled = {}
    /\ issuedAtOutcome = [l \in Loops |-> 0]
    /\ factoryPollingInterval = NoInterval
    /\ codec = NoCodecOp

\* ------------------------------------------- steps of one polling function
\* The finally block: detach handleAbort from the caller's signal, abort the
\* internal controller; the returned promise settles with `out`.
FinallyMutKeepsController(r, out) ==
    [r EXCEPT !.pc = "done", !.outcome = out, !.pending = "none",
              !.removeCalls = @ + 1, !.handleAbortReg = FALSE]

Finally(r, out) ==
    [r EXCEPT !.pc = "done", !.outcome = out, !.pending = "none",
              !.removeCalls = @ + 1, !.handleAbortReg = FALSE, !.ctrlAborted = TRUE]

\* getAbortablePromise(fetch, abortController.signal): the fetch is issued, and
\* the wait for it rejects at once when the controller's signal is already aborted.
IssueFetch(r) ==
    LET r1 == [r EXCEPT !.issued = @ + 1, !.pending = "none"] IN
    IF r.ctrlAborted
        THEN Finally(r1, Rejected(AbortError("controller")))
        ELSE [r1 EXCEPT !.pc = "fetching"]

\* The sleep race: a timer of pollingInterval against a new abort listener on
\* the caller's signal.  The listener is added whether or not the signal is
\* already aborted; an aborted signal never dispatches `abort` again.
SleepMutRefetchesAtOnce(r) == IssueFetch(r)

Sleep(r) ==
    [r EXCEPT !.pc = "sleeping", !.pending = "none",
              !.sleeps = @ + 1, !.sleepListeners = @ + 1,
              !.timerDelay = r.pollingInterval]

\* Registration of handleAbort and the first fetch.
Start(r, s) ==
    IssueFetch([r EXCEPT !.callerOf = s, !.handleAbortReg = TRUE,
                         !.abortedWhile = IF aborted[s] THEN "idle" ELSE "none",
                         !.pollingInterval =
                             pollingInterval(CallConfig(s),
                                 IF s = "race"
                                     THEN PollingFactoryConfig(factoryPollingInterval)
                                     ELSE DirectFactoryConfig)])

\* getRecentSignatureConfirmationByPollingPromise, up to its first await.
SigCallBody(r, s) == Start(r, s)

\* getBlockHeightExceedenceByPollingPromise, up to its first await.
BhCallBodyMutNoEntryCheck(r, s) == Start(r, s)

BhCallBody(r, s) ==
    IF aborted[s]
        THEN [r EXCEPT !.callerOf = s, !.pc = "done", !.abortedWhile = "idle",
                       !.outcome = Rejected(AbortError("caller"))]
        ELSE Start(r, s)

CallBody(l, r, s) == IF l = "sig" THEN SigCallBody(r, s) ELSE BhCallBody(r, s)

\* A rejected fetch is rethrown by the await.
OnFetchErrorMutRetry(r) == Sleep(r)

OnFetchError(r) == Finally(r, Rejected(TransportError(r.fetchErr)))

\* The signature loop after a fetch delivered a status.
SigOnStatusMutCommitmentFirst(r, st) ==
    IF StatusConfirmed(st, commitment) THEN Finally(r, Resolved)
    ELSE IF StatusHasErr(st)
        THEN Finally(r, Rejected(getSolanaErrorFromTransactionError(st.err)))
    ELSE Sleep(r)

SigOnStatus(r, st) ==
    IF StatusHasErr(st)
        THEN Finally(r, Rejected(getSolanaErrorFromTransactionError(st.err)))
    ELSE IF StatusConfirmed(st, commitment) THEN Finally(r, Resolved)
    ELSE Sleep(r)

\* The block-height loop after a fetch delivered a height.
BhOnHeightMutResolves(r, h) ==
    IF KeepsPolling(h, lastValidBlockHeight) THEN Sleep(r)
    ELSE Finally(r, Resolved)

BhOnHeight(r, h) ==
    IF KeepsPolling(h, lastValidBlockHeight) THEN Sleep(r)
    ELSE IF aborted[r.callerOf] THEN Finally(r, Rejected(AbortError("caller")))
    ELSE Finally(r, Rejected(SolanaErrorBlockHeightExceeded(h, lastValidBlockHeight)))

\* The continuation of `await getAbortablePromise(...)`.
ContinueBodyMutNoAbortCheck(l, r) ==
    IF r.pending = "error" THEN OnFetchError(r)
    ELSE IF l = "sig" THEN SigOnStatus(r, Last(r.results))
    ELSE IF KeepsPolling(Last(r.results), lastValidBlockHeight) THEN Sleep(r)
    ELSE Finally(r, Rejected(SolanaErrorBlockHeightExceeded(Last(r.results),
                                                            lastValidBlockHeight)))

ContinueBody(l, r) ==
    IF r.pending = "error" THEN OnFetchError(r)
    ELSE IF l = "sig" THEN SigOnStatus(r, Last(r.results))
    ELSE BhOnHeight(r, Last(r.results))

\* The abort listeners of a polling function run because its caller's signal
\* aborts: handleAbort aborts the controller (which also unregisters handleAbort,
\* added with { signal: abortController.signal }); a pending wait for a fetch
\* rejects with the controller's reason; a pending sleep race rejects with the
\* caller's reason.  A fetch that already settled keeps its result.
OnAbortMutSleepIgnoresAbort(r) ==
    LET r1 == [r EXCEPT !.abortedWhile = r.pc, !.issuedAtAbort = r.issued,
                        !.ctrlAborted = r.handleAbortReg \/ @,
                        !.handleAbortReg = FALSE] IN
    IF r.pc = "fetching" /\ r.handleAbortReg
        THEN Finally(r1, Rejected(AbortError("controller")))
    ELSE r1

OnAbort(r) ==
    LET r1 == [r EXCEPT !.abortedWhile = r.pc, !.issuedAtAbort = r.issued,
                        !.ctrlAborted = r.handleAbortReg \/ @,
                        !.handleAbortReg = FALSE] IN
    IF r.pc = "fetching" /\ r.handleAbortReg
        THEN Finally(r1, Rejected(AbortError("controller")))
    ELSE IF r.pc = "sleeping" /\ r.sleepListeners > 0
        THEN Finally(r1, Rejected(AbortError("caller")))
    ELSE r1

\* The closures after the signals in N have dispatched `abort`.  Each call has
\* its own controller and its own listeners, registered on its own
\* callerAbortSignal.
AfterAbortMutSharedController(N) ==
    [l \in Loops |->
        IF loops[l].pc \in {"fetching", "fetched", "sleeping"}
            THEN OnAbort(loops[l])
            ELSE loops[l]]

AfterAbort(N) ==
    [l \in Loops |->
        IF loops[l].callerOf \in N /\ loops[l].pc \in {"fetching", "fetched", "sleeping"}
            THEN OnAbort(loops[l])
            ELSE loops[l]]

\* ------------------------------------------------------ confirmation race
\* safeRace over the strategies' promises: the first one to settle settles the
\* race; a later settlement changes nothing.
SettledNow(new) ==
    {l \in Loops : /\ new[l].callerOf = "race"
                   /\ loops[l].outcome.state = "pending"
                   /\ new[l].outcome.state # "pending"}

RaceObserves(new) ==
    /\ firstSettled' = IF firstSettled = {} THEN SettledNow(new) ELSE firstSettled
    /\ IF race.state = "pending" /\ SettledNow(new) # {}
          THEN /\ \E w \in SettledNow(new) :
                    race' = [state |-> new[w].outcome.state,
                             err |-> new[w].outcome.err, winner |-> w]
               /\ issuedAtOutcome' = [l \in Loops |-> new[l].issued]
          ELSE UNCHANGED <<race, issuedAtOutcome>>

\* The signal a polling function hands to the transport with a request:
\* rpc.getSignatureStatuses([signature]).send() carries none,
\* rpc.getEpochInfo({ commitment }).send({ abortSignal: abortController.signal })
\* carries the controller's.
FetchSignalMutNoneSignalled(l) == "none"

FetchSignal(l) == IF l = "sig" THEN "none" ELSE "controller"

\* The transport aborts a request when the signal it was sent with aborts
\* while it is in flight, and at once when that signal is already aborted.
RequestAbortedIn(l, new) ==
    /\ FetchSignal(l) = "controller"
    /\ \/ loops[l].pc = "fetching" /\ ~loops[l].ctrlAborted /\ new[l].ctrlAborted
       \/ new[l].issued > loops[l].issued /\ loops[l].ctrlAborted

WithRequests(new) ==
    [l \in Loops |->
        IF RequestAbortedIn(l, new)
            THEN [new[l] EXCEPT !.requestsAborted = @ + 1] ELSE new[l]]

\* Every step of a polling function: the closures change, the race looks on.
LoopStep(new) ==
    /\ loops' = WithRequests(new)
    /\ RaceObserves(new)
    /\ UNCHANGED <<commitment, lastValidBlockHeight, attempt, sendCount, reported,
                   factoryPollingInterval, codec>>

\* ---------------------------------------------------------------- actions
\* A direct call of one polling function (one call per behaviour).
SigCall ==
    /\ attempt = "idle"
    /\ \A l \in Loops : loops[l].pc = "idle"
    /\ LoopStep([loops EXCEPT !["sig"] = CallBody("sig", @, "sigCaller")])
    /\ UNCHANGED aborted

BhCall ==
    /\ attempt = "idle"
    /\ \A l \in Loops : loops[l].pc = "idle"
    /\ LoopStep([loops EXCEPT !["bh"] = CallBody("bh", @, "bhCaller")])
    /\ UNCHANGED aborted

\* The RPC answers the signature-status request.
SigFetchResolve ==
    /\ loops["sig"].pc = "fetching"
    /\ \E st \in SignatureStatuses :
          LoopStep([loops EXCEPT !["sig"] =
              [@ EXCEPT !.pc = "fetched", !.pending = "value",
                        !.results = Append(@, st)]])
    /\ UNCHANGED aborted

\* The RPC answers the epoch-info request.
BhFetchResolve ==
    /\ loops["bh"].pc = "fetching"
    /\ \E h \in BlockHeights :
          LoopStep([loops EXCEPT !["bh"] =
              [@ EXCEPT !.pc = "fetched", !.pending = "value",
                        !.results = Append(@, h)]])
    /\ UNCHANGED aborted

\* The request fails in the transport.
FetchReject(l) ==
    /\ loops[l].pc = "fetching"
    /\ \E e \in TransportErrs :
          LoopStep([loops EXCEPT ![l] =
              [@ EXCEPT !.pc = "fetched", !.pending = "error", !.fetchErr = e]])
    /\ UNCHANGED aborted

\* The polling function resumes after its await.
Continue(l) ==
    /\ loops[l].pc = "fetched"
    /\ LoopStep([loops EXCEPT ![l] = ContinueBody(l, @)])
    /\ UNCHANGED aborted

\* The sleep timer fires and the loop issues its next fetch (at most `max`
\* fetches per loop).
TimerFireUpTo(l, max) ==
    /\ loops[l].pc = "sleeping"
    /\ ~MicrotaskPending
    /\ loops[l].issued < max
    /\ LoopStep([loops EXCEPT ![l] = IssueFetch([@ EXCEPT !.timerFires = @ + 1])])
    /\ UNCHANGED aborted

TimerFire(l) ==
    TimerFireUpTo(l, IF loops[l].callerOf = "race" THEN MaxRaceFetch ELSE MaxFetch)

\* The direct caller aborts the signal it handed to a polling function.
AbortCaller(s) ==
    /\ attempt = "idle"
    /\ ~aborted[s]
    /\ aborted' = [aborted EXCEPT ![s] = TRUE]
    /\ LoopStep(AfterAbort({s}))

Next ==
    \/ SigCall
    \/ BhCall
    \/ SigFetchResolve
    \/ BhFetchResolve
    \/ \E l \in Loops : FetchReject(l)
    \/ \E l \in Loops : Continue(l)
    \/ \E l \in Loops : TimerFire(l)
    \/ \E s \in {"sigCaller", "bhCaller"} : AbortCaller(s)

Spec == Init /\ [][Next]_vars

\* ------------------------------------------------- two concurrent calls
\* A polling function is called with its own caller signal, whether or not the
\* other polling function is running.
PairCall(l) ==
    /\ attempt = "idle"
    /\ loops[l].pc = "idle"
    /\ LoopStep([loops EXCEPT ![l] =
                    CallBody(l, @, IF l = "sig" THEN "sigCaller" ELSE "bhCaller")])
    /\ UNCHANGED aborted

NextPair ==
    \/ \E l \in Loops : PairCall(l)
    \/ SigFetchResolve
    \/ BhFetchResolve
    \/ \E l \in Loops : FetchReject(l)
    \/ \E l \in Loops : Continue(l)
    \/ \E l \in Loops : TimerFireUpTo(l, MaxPairFetch)
    \/ \E s \in {"sigCaller", "bhCaller"} : AbortCaller(s)

InitPair == Init /\ commitment = "confirmed" /\ lastValidBlockHeight = 100

SpecPair == InitPair /\ [][NextPair]_vars

\* --------------------------------------------- sendAndPollToConfirmTransaction
Terminal == {"Confirmed", "Expired", "Failed"}

\* pollToConfirmRecentTransaction awaits the race: it settles as the race does.
pollToConfirmRecentTransaction(o) == [state |-> o.state, err |-> o.err]

\* sendAndPollToConfirmTransaction awaits the send-and-confirm helper: it
\* settles as the helper does.
sendAndPollToConfirmTransactionMutSwallow(o) == Resolved

sendAndPollToConfirmTransaction(o) == o

\* The terminal state of an attempt whose race settled as `o`.
TerminalOf(o) ==
    IF o.state = "resolved" THEN "Confirmed"
    ELSE IF o.err.type = "blockHeightExceeded" THEN "Expired"
    ELSE "Failed"

\* sendAndPollToConfirmTransaction is called: the transaction is sent.
SendMutResubmits ==
    /\ attempt \in {"idle", "Failed"}
    /\ sendCount < 2
    /\ attempt' = "Submitted"
    /\ sendCount' = sendCount + 1
    /\ UNCHANGED <<aborted, commitment, lastValidBlockHeight, loops, race, reported,
                   firstSettled, issuedAtOutcome, factoryPollingInterval, codec>>

Send ==
    /\ attempt = "idle"
    /\ \A l \in Loops : loops[l].pc = "idle"
    /\ attempt' = "Submitted"
    /\ sendCount' = sendCount + 1
    /\ UNCHANGED <<aborted, commitment, lastValidBlockHeight, loops, race, reported,
                   firstSettled, issuedAtOutcome, factoryPollingInterval, codec>>

\* The submission fails.
SendReject ==
    /\ attempt = "Submitted"
    /\ \E e \in {TransportError(t) : t \in TransportErrs}
              \cup (IF aborted["user"] THEN {AbortError("caller")} ELSE {}) :
          reported' = sendAndPollToConfirmTransaction(Rejected(e))
    /\ attempt' = "Failed"
    /\ UNCHANGED <<aborted, commitment, lastValidBlockHeight, loops, sendCount, race,
                   firstSettled, issuedAtOutcome, factoryPollingInterval, codec>>

\* The RPC accepts the transaction and the confirmation race starts: it throws
\* if the user's signal is aborted, else it chains a new controller to that
\* signal and calls the block-height strategy, then the signature strategy, each
\* with the controller's signal.
SendAccept ==
    /\ attempt = "Submitted"
    /\ IF aborted["user"]
          THEN /\ attempt' = "Failed"
               /\ reported' = sendAndPollToConfirmTransaction(
                                  pollToConfirmRecentTransaction(Rejected(AbortError("caller"))))
               /\ UNCHANGED <<loops, race, firstSettled, issuedAtOutcome>>
          ELSE /\ attempt' = "Polling"
               /\ loops' = WithRequests([l \in Loops |-> CallBody(l, loops[l], "race")])
               /\ RaceObserves([l \in Loops |-> CallBody(l, loops[l], "race")])
               /\ UNCHANGED reported
    /\ UNCHANGED <<aborted, commitment, lastValidBlockHeight, sendCount,
                   factoryPollingInterval, codec>>

\* The user aborts the signal handed to sendAndPollToConfirmTransaction; while
\* the race runs, its controller is chained to that signal.
AbortUser ==
    /\ attempt # "idle"
    /\ ~aborted["user"]
    /\ LET N == IF attempt = "Polling" THEN {"user", "race"} ELSE {"user"} IN
          /\ aborted' = [s \in Signals |-> aborted[s] \/ s \in N]
          /\ LoopStep(AfterAbort({s \in N : ~aborted[s]}))

\* The race has settled: its finally block aborts the controller, and the
\* attempt ends with the race's outcome.
RaceContinue ==
    /\ attempt = "Polling"
    /\ race.state # "pending"
    /\ aborted' = [aborted EXCEPT !["race"] = TRUE]
    /\ loops' = WithRequests(AfterAbort({s \in {"race"} : ~aborted[s]}))
    /\ RaceObserves(AfterAbort({s \in {"race"} : ~aborted[s]}))
    /\ attempt' = TerminalOf(race)
    /\ reported' = sendAndPollToConfirmTransaction(pollToConfirmRecentTransaction(race))
    /\ UNCHANGED <<commitment, lastValidBlockHeight, sendCount, factoryPollingInterval, codec>>

NextRace ==
    \/ Send
    \/ SendReject
    \/ SendAccept
    \/ AbortUser
    \/ RaceContinue
    \/ SigFetchResolve
    \/ BhFetchResolve
    \/ \E l \in Loops : FetchReject(l)
    \/ \E l \in Loops : Continue(l)
    \/ \E l \in Loops : TimerFire(l)

\* One ceiling is enough for the race: what an attempt does depends on the
\* heights the node reports relative to it.
InitRace == Init /\ lastValidBlockHeight = 100

SpecRace == InitRace /\ [][NextRace]_vars

\* ------------------------------------- sendAndPollToConfirmTransactionFactory
\* Polling intervals a factory is created with.
FactoryIntervals == {250, 2000}

\* sendAndPollToConfirmTransactionFactory({ rpc, pollingInterval: p }).
CreateFactory ==
    /\ attempt = "idle"
    /\ factoryPollingInterval = NoInterval
    /\ \E p \in FactoryIntervals : factoryPollingInterval' = p
    /\ UNCHANGED <<aborted, commitment, lastValidBlockHeight, loops, attempt, sendCount,
                   race, reported, firstSettled, issuedAtOutcome, codec>>

NextFactory ==
    \/ CreateFactory
    \/ NextRace

InitFactory == Init /\ commitment = "confirmed" /\ lastValidBlockHeight = 100

SpecFactory == InitFactory /\ [][NextFactory]_vars

\* ================================================================ codecs
\* Byte arrays are sequences over 0..255; the byte at JavaScript index i is
\* element i + 1.  A write gives the buffer after it and the offset it returns;
\* a read gives the value and the offset it returns; `err` names what was thrown.
Min(a, b) == IF a <= b THEN a ELSE b

Zeros(n) == [i \in 1..n |-> 0]

\* bit k of the number a
Bit(a, k) == (a \div (2 ^ k)) % 2

\* a | b on 8 bits
BitOr(a, b) ==
    LET Or(k) == IF Bit(a, k) = 1 \/ Bit(b, k) = 1 THEN 2 ^ k ELSE 0 IN
    Or(0) + Or(1) + Or(2) + Or(3) + Or(4) + Or(5) + Or(6) + Or(7)

\* bytes.slice(from, to)
Slice(bytes, from, to) == SubSeq(bytes, from + 1, Min(to, Len(bytes)))

WriteOk(bytes, offset) == [err |-> "none", bytes |-> bytes, offset |-> offset]

WriteErr(e, bytes, offset) == [err |-> e, bytes |-> bytes, offset |-> offset]

ReadOk(value, offset) == [err |-> "none", value |-> value, offset |-> offset]

ReadErr(e, offset) == [err |-> e, value |-> <<>>, offset |-> offset]

\* bytes.set(src, offset): a RangeError when src does not fit.
SetBytes(bytes, src, offset) ==
    IF offset + Len(src) > Len(bytes)
        THEN WriteErr("RangeError", bytes, offset)
        ELSE WriteOk([i \in 1..Len(bytes) |->
                         IF i > offset /\ i <= offset + Len(src)
                             THEN src[i - offset] ELSE bytes[i]],
                     offset)

\* ------------------------------------------------------------ bit arrays
\* Number(value[index] ?? 0)
Feature(value, index) ==
    IF index < Len(value) /\ value[index + 1] THEN 1 ELSE 0

\* The inner loop of the encoder: one byte out of eight booleans.
RECURSIVE PackByteMutLsbFirst(_, _, _, _, _)
PackByteMutLsbFirst(value, i, backward, j, byte) ==
    IF j >= 8 THEN byte
    ELSE PackByteMutLsbFirst(value, i, backward, j + 1,
                             BitOr(byte, Feature(value, i * 8 + j) * (2 ^ j)))

RECURSIVE PackByte(_, _, _, _, _)
PackByte(value, i, backward, j, byte) ==
    IF j >= 8 THEN byte
    ELSE PackByte(value, i, backward, j + 1,
                  BitOr(byte, Feature(value, i * 8 + j) * (2 ^ (IF backward THEN j ELSE 7 - j))))

\* The outer loop of the encoder: unshift when backward, else push.
RECURSIVE BytesToAdd(_, _, _, _, _)
BytesToAdd(value, size, backward, i, bytesToAdd) ==
    IF i >= size THEN bytesToAdd
    ELSE BytesToAdd(value, size, backward, i + 1,
                    IF backward
                        THEN <<PackByte(value, i, backward, 0, 0)>> \o bytesToAdd
                        ELSE Append(bytesToAdd, PackByte(value, i, backward, 0, 0)))

\* What write returns once the bytes are set.
BitArrayWriteReturn(size, offset) == size

\* getBitArrayEncoder(size, { backward }).write(value, bytes, offset)
getBitArrayEncoderWrite(size, backward, value, bytes, offset) ==
    LET set == SetBytes(bytes, BytesToAdd(value, size, backward, 0, <<>>), offset) IN
    IF set.err # "none" THEN set
    ELSE WriteOk(set.bytes, BitArrayWriteReturn(size, offset))

\* The inner loop of the decoder: eight booleans out of one byte.
RECURSIVE UnpackByte(_, _, _, _)
UnpackByte(byte, backward, i, booleans) ==
    IF i >= 8 THEN booleans
    ELSE IF backward
        THEN UnpackByte(byte \div 2, backward, i + 1, Append(booleans, Bit(byte, 0) = 1))
        ELSE UnpackByte(byte * 2, backward, i + 1, Append(booleans, Bit(byte, 7) = 1))

RECURSIVE UnpackBytes(_, _, _)
UnpackBytes(slice, backward, booleans) ==
    IF slice = <<>> THEN booleans
    ELSE UnpackBytes(Tail(slice), backward,
                     booleans \o UnpackByte(Head(slice), backward, 0, <<>>))

Reverse(s) == [i \in 1..Len(s) |-> s[Len(s) + 1 - i]]

\* getBitArrayDecoder(size, { backward }).read(bytes, offset)
getBitArrayDecoderReadMutKeepsOrder(size, backward, bytes, offset) ==
    IF Len(bytes) - offset < size THEN ReadErr("NotEnoughBytes", offset)
    ELSE ReadOk(UnpackBytes(Slice(bytes, offset, offset + size), backward, <<>>),
                offset + size)

getBitArrayDecoderRead(size, backward, bytes, offset) ==
    IF Len(bytes) - offset < size THEN ReadErr("NotEnoughBytes", offset)
    ELSE LET slice == Slice(bytes, offset, offset + size) IN
         ReadOk(UnpackBytes(IF backward THEN Reverse(slice) ELSE slice, backward, <<>>),
                offset + size)

\* createEncoder(...).encode(value): a new buffer of the encoded size, written
\* from offset 0.
getBitArrayEncoderEncode(size, backward, value) ==
    getBitArrayEncoderWrite(size, backward, value, Zeros(size), 0).bytes

\* createDecoder(...).decode(bytes): the value read at offset 0.
getBitArrayDecoderDecode(size, backward, bytes) ==
    getBitArrayDecoderRead(size, backward, bytes, 0).value

\* ------------------------------------------------------- number codecs
\* The item and prefix codecs of @solana/codecs-numbers: u8, u16 and u32 are
\* fixed-size little-endian, shortU16 takes 1 to 3 bytes of 7 bits each.
NumberSize(name) == IF name = "u8" THEN 1 ELSE IF name = "u16" THEN 2 ELSE 4

LittleEndian(v, n) == [i \in 1..n |-> (v \div (256 ^ (i - 1))) % 256]

RECURSIVE FromLittleEndian(_)
FromLittleEndian(b) == IF b = <<>> THEN 0 ELSE Head(b) + 256 * FromLittleEndian(Tail(b))

RECURSIVE ShortU16Bytes(_, _, _)
ShortU16Bytes(v, ii, out) ==
    LET aligned == v \div (2 ^ (ii * 7)) IN
    IF aligned = 0 THEN out
    ELSE ShortU16Bytes(v, ii + 1,
            IF ii = 0 THEN <<aligned % 128>>
            ELSE Append([out EXCEPT ![ii] = BitOr(@, 128)], aligned % 128))

RECURSIVE ShortU16Read(_, _, _, _)
ShortU16Read(bytes, offset, byteIndex, value) ==
    LET currentByte == IF offset + byteIndex < Len(bytes)
                           THEN bytes[offset + byteIndex + 1] ELSE 0
        v == value + (currentByte % 128) * (2 ^ (byteIndex * 7)) IN
    IF Bit(currentByte, 7) = 0 THEN ReadOk(v, offset + byteIndex + 1)
    ELSE ShortU16Read(bytes, offset, byteIndex + 1, v)

\* getFixedSize(codec): {n} for a fixed size of n bytes, {} for null.
getFixedSize(item) == IF item = "shortU16" THEN {} ELSE {NumberSize(item)}

\* getEncodedSize(value, item)
ItemEncodedSize(item, v) ==
    IF item = "shortU16" THEN Len(ShortU16Bytes(v, 0, <<0>>)) ELSE NumberSize(item)

\* item.write(value, bytes, offset)
ItemWrite(item, v, bytes, offset) ==
    LET src == IF item = "shortU16" THEN ShortU16Bytes(v, 0, <<0>>)
               ELSE LittleEndian(v, NumberSize(item))
        set == SetBytes(bytes, src, offset) IN
    IF v < 0 \/ v \div (256 ^ ((IF item = "shortU16" THEN 2 ELSE NumberSize(item)) - 1)) >= 256
        THEN WriteErr("NumberOutOfRange", bytes, offset)
    ELSE IF set.err # "none" THEN set
    ELSE WriteOk(set.bytes, offset + Len(src))

\* item.read(bytes, offset)
ItemRead(item, bytes, offset) ==
    IF item = "shortU16" THEN ShortU16Read(bytes, offset, 0, 0)
    ELSE IF Len(bytes) - offset <= 0 THEN ReadErr("EmptyByteArray", offset)
    ELSE IF Len(bytes) - offset < NumberSize(item) THEN ReadErr("NotEnoughBytes", offset)
    ELSE ReadOk(FromLittleEndian(Slice(bytes, offset, offset + NumberSize(item))),
                offset + NumberSize(item))

\* ---------------------------------------------------------------- arrays
\* The size option of an array codec: a prefix codec (typeof 'object'), a
\* literal number of items, or 'remainder'.
PrefixSize(prefix) == [type |-> "object", n |-> 0, prefix |-> prefix]

NumberOfItems(n) == [type |-> "number", n |-> n, prefix |-> "none"]

Remainder == [type |-> "remainder", n |-> 0, prefix |-> "none"]

\* config.size ?? getU32Encoder()
DefaultSize == PrefixSize("u32")

\* computeArrayLikeCodecSize(size, itemSize): {n} for n bytes, {} for null.
computeArrayLikeCodecSizeMutNoZeroCase(size, itemSize) ==
    IF size.type # "number" THEN {}
    ELSE IF itemSize = {} THEN {}
    ELSE {x * size.n : x \in itemSize}

computeArrayLikeCodecSize(size, itemSize) ==
    IF size.type # "number" THEN {}
    ELSE IF size.n = 0 THEN {0}
    ELSE IF itemSize = {} THEN {}
    ELSE {x * size.n : x \in itemSize}

RECURSIVE SumOfItemSizes(_, _)
SumOfItemSizes(item, array) ==
    IF array = <<>> THEN 0
    ELSE ItemEncodedSize(item, Head(array)) + SumOfItemSizes(item, Tail(array))

\* getSizeFromValue of a variable-size array encoder.
getArrayEncoderSizeFromValueMutNoPrefix(size, item, array) ==
    SumOfItemSizes(item, array)

getArrayEncoderSizeFromValue(size, item, array) ==
    (IF size.type = "object" THEN ItemEncodedSize(size.prefix, Len(array)) ELSE 0)
        + SumOfItemSizes(item, array)

\* getEncodedSize(array, getArrayEncoder(item, { size }))
getArrayEncodedSize(size, item, array) ==
    LET fixedSize == computeArrayLikeCodecSize(size, getFixedSize(item)) IN
    IF fixedSize # {} THEN CHOOSE n \in fixedSize : TRUE
    ELSE getArrayEncoderSizeFromValue(size, item, array)

\* array.forEach(value => { offset = item.write(value, bytes, offset); })
RECURSIVE WriteItems(_, _, _)
WriteItems(item, array, w) ==
    IF array = <<>> \/ w.err # "none" THEN w
    ELSE WriteItems(item, Tail(array), ItemWrite(item, Head(array), w.bytes, w.offset))

\* The check of a literal size, ahead of every write.
AssertValidNumberOfItemsMutUnchecked(size, array) == TRUE

AssertValidNumberOfItems(size, array) ==
    size.type = "number" => Len(array) = size.n

\* getArrayEncoder(item, { size }).write(array, bytes, offset)
getArrayEncoderWriteMutNoPrefix(size, item, array, bytes, offset) ==
    IF ~AssertValidNumberOfItems(size, array)
        THEN WriteErr("InvalidNumberOfItems", bytes, offset)
    ELSE WriteItems(item, array, WriteOk(bytes, offset))

getArrayEncoderWrite(size, item, array, bytes, offset) ==
    IF ~AssertValidNumberOfItems(size, array)
        THEN WriteErr("InvalidNumberOfItems", bytes, offset)
    ELSE WriteItems(item, array,
                    IF size.type = "object"
                        THEN ItemWrite(size.prefix, Len(array), bytes, offset)
                        ELSE WriteOk(bytes, offset))

\* while (offset < bytes.length) { read an item }
RECURSIVE ReadItemsToEnd(_, _, _, _)
ReadItemsToEnd(item, bytes, offset, array) ==
    IF ~(offset < Len(bytes)) THEN ReadOk(array, offset)
    ELSE LET r == ItemRead(item, bytes, offset) IN
         IF r.err # "none" THEN ReadErr(r.err, offset)
         ELSE ReadItemsToEnd(item, bytes, r.offset, Append(array, r.value))

\* for (let i = 0; i < resolvedSize; i += 1) { read an item }
RECURSIVE ReadItems(_, _, _, _, _)
ReadItems(item, resolvedSize, bytes, offset, array) ==
    IF Len(array) >= resolvedSize THEN ReadOk(array, offset)
    ELSE LET r == ItemRead(item, bytes, offset) IN
         IF r.err # "none" THEN ReadErr(r.err, offset)
         ELSE ReadItems(item, resolvedSize, bytes, r.offset, Append(array, r.value))

\* typeof size === 'object' && bytes.slice(offset).length === 0
NoBytesForPrefixMutNever(size, bytes, offset) == FALSE

NoBytesForPrefix(size, bytes, offset) ==
    size.type = "object" /\ Len(Slice(bytes, offset, Len(bytes))) = 0

\* getArrayDecoder(item, { size }).read(bytes, offset)
getArrayDecoderReadMutRemainderReadsOne(size, item, bytes, offset) ==
    IF NoBytesForPrefix(size, bytes, offset)
        THEN ReadOk(<<>>, offset)
    ELSE IF size.type = "remainder" THEN ReadItems(item, 1, bytes, offset, <<>>)
    ELSE LET resolved == IF size.type = "number" THEN ReadOk(size.n, offset)
                         ELSE ItemRead(size.prefix, bytes, offset) IN
         IF resolved.err # "none" THEN ReadErr(resolved.err, offset)
         ELSE ReadItems(item, resolved.value, bytes, resolved.offset, <<>>)

getArrayDecoderRead(size, item, bytes, offset) ==
    IF NoBytesForPrefix(size, bytes, offset)
        THEN ReadOk(<<>>, offset)
    ELSE IF size.type = "remainder" THEN ReadItemsToEnd(item, bytes, offset, <<>>)
    ELSE LET resolved == IF size.type = "number" THEN ReadOk(size.n, offset)
                         ELSE ItemRead(size.prefix, bytes, offset) IN
         IF resolved.err # "none" THEN ReadErr(resolved.err, offset)
         ELSE ReadItems(item, resolved.value, bytes, resolved.offset, <<>>)

\* ----------------------------------------------------------------- bytes
\* getBytesEncoder().write(value, bytes, offset)
getBytesEncoderWrite(value, bytes, offset) ==
    LET set == SetBytes(bytes, value, offset) IN
    IF set.err # "none" THEN set ELSE WriteOk(set.bytes, offset + Len(value))

\* getBytesDecoder().read(bytes, offset)
getBytesDecoderReadMutDropsLast(bytes, offset) ==
    LET slice == Slice(bytes, offset, Len(bytes) - 1) IN
    ReadOk(slice, offset + Len(slice))

getBytesDecoderRead(bytes, offset) ==
    LET slice == Slice(bytes, offset, Len(bytes)) IN
    ReadOk(slice, offset + Len(slice))

\* --------------------------------------------------------- hidden suffix
\* The codecs a tuple is built over: a number codec, or a void codec that
\* writes a constant and, on read, checks it and yields undefined.
NumberCodec(name) == [kind |-> "number", name |-> name, constant |-> <<>>]

ConstantCodec(constant) == [kind |-> "constant", name |-> "none", constant |-> constant]

Undefined == "undefined"

CodecEncodedSize(c, v) ==
    IF c.kind = "constant" THEN Len(c.constant) ELSE ItemEncodedSize(c.name, v)

CodecWrite(c, v, bytes, offset) ==
    IF c.kind = "constant"
        THEN LET set == SetBytes(bytes, c.constant, offset) IN
             IF set.err # "none" THEN set
             ELSE WriteOk(set.bytes, offset + Len(c.constant))
        ELSE ItemWrite(c.name, v, bytes, offset)

CodecRead(c, bytes, offset) ==
    IF c.kind = "constant"
        THEN IF Slice(bytes, offset, offset + Len(c.constant)) # c.constant
                 THEN ReadErr("InvalidConstant", offset)
                 ELSE ReadOk(Undefined, offset + Len(c.constant))
        ELSE ItemRead(c.name, bytes, offset)

\* getTupleEncoder(items).write(value, bytes, offset): each item in turn.
RECURSIVE getTupleEncoderWrite(_, _, _)
getTupleEncoderWrite(items, value, w) ==
    IF items = <<>> \/ w.err # "none" THEN w
    ELSE getTupleEncoderWrite(Tail(items), Tail(value),
                              CodecWrite(Head(items), Head(value), w.bytes, w.offset))

RECURSIVE getTupleEncoderSize(_, _)
getTupleEncoderSize(items, value) ==
    IF items = <<>> THEN 0
    ELSE CodecEncodedSize(Head(items), Head(value))
             + getTupleEncoderSize(Tail(items), Tail(value))

\* getTupleDecoder(items).read(bytes, offset): each item in turn.
RECURSIVE getTupleDecoderRead(_, _, _, _)
getTupleDecoderRead(items, bytes, offset, values) ==
    IF items = <<>> THEN ReadOk(values, offset)
    ELSE LET r == CodecRead(Head(items), bytes, offset) IN
         IF r.err # "none" THEN ReadErr(r.err, offset)
         ELSE getTupleDecoderRead(Tail(items), bytes, r.offset, Append(values, r.value))

\* [encoder, ...suffixedEncoders] and [decoder, ...suffixedDecoders]
HiddenSuffixTupleMutNoSuffix(main, suffixes) == <<main>>

HiddenSuffixTuple(main, suffixes) == <<main>> \o suffixes

\* value => [value, ...suffixedEncoders.map(() => undefined)]
HiddenSuffixTupleValue(value, suffixes) ==
    <<value>> \o [i \in 1..Len(suffixes) |-> Undefined]

\* tuple => tuple[0]
HiddenSuffixValue(tuple) == tuple[1]

\* getHiddenSuffixEncoder(encoder, suffixedEncoders).write(value, bytes, offset)
getHiddenSuffixEncoderWrite(main, suffixes, value, bytes, offset) ==
    getTupleEncoderWrite(HiddenSuffixTuple(main, suffixes),
                         HiddenSuffixTupleValue(value, suffixes), WriteOk(bytes, offset))

\* getEncodedSize(value, getHiddenSuffixEncoder(encoder, suffixedEncoders))
getHiddenSuffixEncodedSize(main, suffixes, value) ==
    getTupleEncoderSize(HiddenSuffixTuple(main, suffixes),
                        HiddenSuffixTupleValue(value, suffixes))

\* getHiddenSuffixDecoder(decoder, suffixedDecoders).read(bytes, offset)
getHiddenSuffixDecoderRead(main, suffixes, bytes, offset) ==
    LET r == getTupleDecoderRead(HiddenSuffixTuple(main, suffixes), bytes, offset, <<>>) IN
    IF r.err # "none" THEN r ELSE ReadOk(HiddenSuffixValue(r.value), r.offset)

\* ------------------------------------------------------- codec inputs
RECURSIVE SubsetsUpTo(_, _)
SubsetsUpTo(S, k) ==
    IF k = 0 THEN {{}}
    ELSE LET P == SubsetsUpTo(S, k - 1) IN P \cup {q \cup {x} : q \in P, x \in S}

\* Boolean arrays with up to MaxFlipped elements differing from the rest: of
\* 8 * size elements, of fewer (the missing ones count as false) and of one more.
BoolArray(len, T, rest) == [i \in 1..len |-> IF i \in T THEN ~rest ELSE rest]

BitArrayLengths(size) == {0, 3, 8 * size - 1, 8 * size, 8 * size + 1}

\* The input of the examples of the bit-array documentation.
ExampleBooleans == <<TRUE, FALSE, TRUE, FALSE, FALSE, FALSE, FALSE, FALSE>>

BitArrayValues(size) ==
    {ExampleBooleans} \cup
    UNION {{BoolArray(len, T, rest) : T \in SubsetsUpTo(1..len, MaxFlipped), rest \in BOOLEAN}
              : len \in BitArrayLengths(size)}

\* The boolean arrays written at an offset: one true element or none.
BitArrayWriteValues(size) ==
    {BoolArray(8 * size, T, FALSE) : T \in SubsetsUpTo(1..(8 * size), 1)}

ByteSamples == {0, 1, 5, 128, 160, 255}

RECURSIVE SeqsOf(_, _)
SeqsOf(S, n) ==
    IF n = 0 THEN {<<>>} ELSE {Append(q, x) : q \in SeqsOf(S, n - 1), x \in S}

\* The item codecs an array is built over, and the values they take.
Items == {"u8", "u16", "shortU16"}

ItemValues(item) ==
    IF item = "u8" THEN {1, 2, 3, 255}
    ELSE IF item = "u16" THEN {1, 258, 65535}
    ELSE {0, 127, 128, 300}

Sizes ==
    {DefaultSize, PrefixSize("u8"), Remainder} \cup {NumberOfItems(n) : n \in 0..MaxArrayLen}

ArrayValues(item) == UNION {SeqsOf(ItemValues(item), n) : n \in 0..MaxArrayLen}

ByteStrings == UNION {SeqsOf(ByteSamples, n) : n \in 0..MaxArrayLen}

\* The count prefix, where the buffer holds one at the offset, is at most
\* MaxArrayLen.
CountWithinBound(size, bytes, offset) ==
    LET prefix == Slice(bytes, offset, offset + NumberSize(size.prefix)) IN
    IF size.type # "object" THEN TRUE
    ELSE IF Len(prefix) < NumberSize(size.prefix) THEN TRUE
    ELSE \A i \in 1..Len(prefix) : prefix[i] <= (IF i = 1 THEN MaxArrayLen ELSE 0)

\* Lists of void codecs hidden after a main codec.
SuffixLists ==
    {<<>>, <<ConstantCodec(<<1, 2>>)>>,
     <<ConstantCodec(<<1, 2>>), ConstantCodec(<<9>>)>>,
     <<ConstantCodec(<<9>>), ConstantCodec(<<>>), ConstantCodec(<<1, 2>>)>>}

\* A target buffer none of whose bytes is one an encoder under test writes
\* by default.
FilledBuffer(n) == [i \in 1..n |-> 238]

\* ------------------------------------------------------- codec actions
\* value -> encode -> decode with a bit-array codec.
BitArrayEncode ==
    /\ codec = NoCodecOp
    /\ \E size \in 1..MaxBitArraySize, backward \in BOOLEAN :
          \E value \in BitArrayValues(size) :
             LET encoded == getBitArrayEncoderEncode(size, backward, value) IN
             codec' = [op |-> "bitArrayEncode", size |-> size, backward |-> backward,
                       value |-> value, encoded |-> encoded,
                       decoded |-> getBitArrayDecoderDecode(size, backward, encoded)]
    /\ UNCHANGED <<aborted, commitment, lastValidBlockHeight, loops, raceVars>>

\* bytes -> decode -> encode with a bit-array codec.
BitArrayDecode ==
    /\ codec = NoCodecOp
    /\ \E size \in 1..MaxBitArraySize, backward \in BOOLEAN :
          \E bytes \in SeqsOf(ByteSamples, size) :
             LET decoded == getBitArrayDecoderDecode(size, backward, bytes) IN
             codec' = [op |-> "bitArrayDecode", size |-> size, backward |-> backward,
                       bytes |-> bytes, decoded |-> decoded,
                       encoded |-> getBitArrayEncoderEncode(size, backward, decoded)]
    /\ UNCHANGED <<aborted, commitment, lastValidBlockHeight, loops, raceVars>>

\* A bit-array encoder writes into a caller's buffer at an offset.
BitArrayWrite ==
    /\ codec = NoCodecOp
    /\ \E size \in 1..MaxBitArraySize, backward \in BOOLEAN, offset \in 0..MaxOffset,
          room \in 0..1 :
          \E value \in BitArrayWriteValues(size) :
             LET bytes == FilledBuffer(offset + size + room) IN
             codec' = [op |-> "bitArrayWrite", size |-> size, backward |-> backward,
                       value |-> value, bytes |-> bytes, offset |-> offset,
                       res |-> getBitArrayEncoderWrite(size, backward, value, bytes, offset)]
    /\ UNCHANGED <<aborted, commitment, lastValidBlockHeight, loops, raceVars>>

\* array -> encode -> decode with an array codec.
ArrayEncode ==
    /\ codec = NoCodecOp
    /\ \E size \in Sizes, item \in Items :
          \E array \in ArrayValues(item) :
             LET enc == getArrayEncoderWrite(size, item, array,
                                             Zeros(getArrayEncodedSize(size, item, array)), 0)
             IN
             codec' = [op |-> "arrayEncode", size |-> size, item |-> item, value |-> array,
                       enc |-> enc,
                       dec |-> IF enc.err = "none"
                                   THEN getArrayDecoderRead(size, item, enc.bytes, 0)
                                   ELSE ReadErr("notEncoded", 0)]
    /\ UNCHANGED <<aborted, commitment, lastValidBlockHeight, loops, raceVars>>

\* An array encoder writes into a caller's buffer at an offset, and the decoder
\* reads the buffer back from that offset.
ArrayWrite ==
    /\ codec = NoCodecOp
    /\ \E size \in Sizes, item \in Items, offset \in 0..MaxOffset, room \in 0..1 :
          \E array \in ArrayValues(item) :
             LET bytes == FilledBuffer(offset + getArrayEncoderSizeFromValue(size, item, array)
                                           + room)
                 res == getArrayEncoderWrite(size, item, array, bytes, offset) IN
             codec' = [op |-> "arrayWrite", size |-> size, item |-> item, value |-> array,
                       fixedSize |-> computeArrayLikeCodecSize(size, getFixedSize(item)),
                       sizeFromValue |-> getArrayEncoderSizeFromValue(size, item, array),
                       bytes |-> bytes, offset |-> offset, res |-> res,
                       back |-> IF res.err = "none"
                                    THEN getArrayDecoderRead(size, item, res.bytes, offset)
                                    ELSE ReadErr("notEncoded", offset)]
    /\ UNCHANGED <<aborted, commitment, lastValidBlockHeight, loops, raceVars>>

\* An array decoder reads any buffer at any offset.
ArrayRead ==
    /\ codec = NoCodecOp
    /\ \E size \in Sizes, item \in Items, bytes \in ByteStrings, offset \in 0..(MaxOffset + 1) :
          \* a count prefix, where one is read, stays within the bound
          /\ CountWithinBound(size, bytes, offset)
          /\ codec' = [op |-> "arrayRead", size |-> size, item |-> item,
                       fixedSize |-> computeArrayLikeCodecSize(size, getFixedSize(item)),
                       bytes |-> bytes, offset |-> offset,
                       res |-> getArrayDecoderRead(size, item, bytes, offset)]
    /\ UNCHANGED <<aborted, commitment, lastValidBlockHeight, loops, raceVars>>

\* bytes -> encode -> decode with the bytes codec.
BytesEncode ==
    /\ codec = NoCodecOp
    /\ \E value \in ByteStrings :
          LET enc == getBytesEncoderWrite(value, Zeros(Len(value)), 0) IN
          codec' = [op |-> "bytesEncode", value |-> value, enc |-> enc,
                    dec |-> getBytesDecoderRead(enc.bytes, 0)]
    /\ UNCHANGED <<aborted, commitment, lastValidBlockHeight, loops, raceVars>>

\* value -> encode -> decode with a hidden-suffix codec.
HiddenSuffixEncode ==
    /\ codec = NoCodecOp
    /\ \E main \in Items, suffixes \in SuffixLists :
          \E value \in ItemValues(main) :
             LET m == NumberCodec(main)
                 enc == getHiddenSuffixEncoderWrite(m, suffixes, value,
                            Zeros(getHiddenSuffixEncodedSize(m, suffixes, value)), 0) IN
             codec' = [op |-> "hiddenSuffixEncode", main |-> main, suffixes |-> suffixes,
                       value |-> value, enc |-> enc,
                       dec |-> getHiddenSuffixDecoderRead(m, suffixes, enc.bytes, 0)]
    /\ UNCHANGED <<aborted, commitment, lastValidBlockHeight, loops, raceVars>>

\* A hidden-suffix encoder writes into a caller's buffer at an offset, and the
\* decoder reads the buffer back from that offset.
HiddenSuffixWrite ==
    /\ codec = NoCodecOp
    /\ \E main \in Items, suffixes \in SuffixLists, offset \in 0..MaxOffset, room \in 0..1 :
          \E value \in ItemValues(main) :
             LET m == NumberCodec(main)
                 bytes == FilledBuffer(offset + getHiddenSuffixEncodedSize(m, suffixes, value)
                                           + room)
                 res == getHiddenSuffixEncoderWrite(m, suffixes, value, bytes, offset) IN
             codec' = [op |-> "hiddenSuffixWrite", main |-> main, suffixes |-> suffixes,
                       value |-> value, bytes |-> bytes, offset |-> offset, res |-> res,
                       back |-> getHiddenSuffixDecoderRead(m, suffixes, res.bytes, offset)]
    /\ UNCHANGED <<aborted, commitment, lastValidBlockHeight, loops, raceVars>>

NextCodec ==
    \/ BitArrayEncode
    \/ BitArrayDecode
    \/ BitArrayWrite
    \/ ArrayEncode
    \/ ArrayWrite
    \/ ArrayRead
    \/ BytesEncode
    \/ HiddenSuffixEncode
    \/ HiddenSuffixWrite

\* One codec operation is applied to one input; the polling state stays as
\* constructed.
InitCodec == Init /\ commitment = "confirmed" /\ lastValidBlockHeight = 100

SpecCodec == InitCodec /\ [][NextCodec]_vars

\* ------------------------------------------------------------ properties
SigLoop == loops["sig"]

BhLoop == loops["bh"]

\* The caller's signal was not aborted before or during the call.
NoAbort(r) == r.abortedWhile = "none"

\* The continuation of the last settled fetch has run.
Resumed(r) == r.pc # "fetched"

IsAbortRejection(o) == o.state = "rejected" /\ o.err.type = "abort"

\* A status that confirms the signature at the requested commitment.
Confirming(st) ==
    /\ st # NullStatus
    /\ st.err = "none"
    /\ st.confirmationStatus \in Commitments
    /\ Rank(st.confirmationStatus) >= Rank(commitment)

\* A null status or a status of lower rank than requested.
NotYetConfirming(st) ==
    \/ st = NullStatus
    \/ /\ st.err = "none"
       /\ st.confirmationStatus \in Commitments
       /\ Rank(st.confirmationStatus) < Rank(commitment)

StatusOf(cs) == [null |-> FALSE, err |-> "none", confirmationStatus |-> cs]

\* C1: absent abort and fetch errors the signature loop resolves exactly at the
\* first fetch whose status is non-null, without error and of rank >= the requested
\* commitment, and issues no fetch afterwards; a null or lower-rank status leaves
\* the promise pending and is followed by one sleep and then the next fetch; the
\* statuses processed, confirmed with commitment confirmed resolve after 2 fetches.
C1_ResolvesAtFirstConfirmingStatus ==
    LET r == SigLoop
        n == Len(r.results) IN
    (NoAbort(r) /\ r.fetchErr = "none" /\ Resumed(r)) =>
        /\ \A i \in 1..(n - 1) : ~Confirming(r.results[i])
        /\ (n > 0 /\ Confirming(r.results[n])) <=> r.outcome = Resolved
        /\ r.outcome = Resolved => (r.pc = "done" /\ r.issued = n /\ r.sleeps = n - 1)
        /\ (n > 0 /\ r.issued = n /\ NotYetConfirming(r.results[n])) =>
              (r.outcome = Pending /\ r.pc = "sleeping" /\ r.sleeps = n /\ r.timerFires = n - 1)
        /\ r.pc = "fetching" => (r.issued = n + 1 /\ r.sleeps = n /\ r.timerFires = n)
        /\ (commitment = "confirmed"
              /\ r.results = <<StatusOf("processed"), StatusOf("confirmed")>>) =>
              (r.outcome = Resolved /\ r.issued = 2)

C1_Witness ==
    /\ NoAbort(SigLoop)
    /\ commitment = "confirmed"
    /\ SigLoop.results = <<StatusOf("processed"), StatusOf("confirmed")>>
    /\ SigLoop.outcome = Resolved
    /\ SigLoop.issued = 2
    /\ SigLoop.timerFires = 1

\* C2: absent abort and fetch errors the block-height loop rejects with the
\* block-height-exceeded error exactly at the first fetch whose height is strictly
\* above lastValidBlockHeight, the error carries that height and the ceiling, no
\* fetch follows; a first fetch above the ceiling rejects without any sleep; a
\* height equal to the ceiling keeps polling; heights 99, 101 with ceiling 100
\* reject after 2 fetches and one sleep.
C2_RejectsAtFirstExceedingHeight ==
    LET r == BhLoop
        n == Len(r.results) IN
    (NoAbort(r) /\ r.fetchErr = "none" /\ Resumed(r)) =>
        /\ \A i \in 1..(n - 1) : r.results[i] <= lastValidBlockHeight
        /\ (n > 0 /\ r.results[n] > lastValidBlockHeight) <=> r.outcome.state = "rejected"
        /\ r.outcome.state = "rejected" =>
              /\ r.outcome.err = SolanaErrorBlockHeightExceeded(r.results[n], lastValidBlockHeight)
              /\ r.pc = "done" /\ r.issued = n /\ r.sleeps = n - 1 /\ r.timerFires = n - 1
        /\ (n > 0 /\ r.issued = n /\ r.results[n] <= lastValidBlockHeight) =>
              (r.outcome = Pending /\ r.pc = "sleeping" /\ r.sleeps = n)
        /\ (lastValidBlockHeight = 100 /\ r.results = <<99, 101>>) =>
              (r.outcome = Rejected(SolanaErrorBlockHeightExceeded(101, 100))
                 /\ r.issued = 2 /\ r.sleeps = 1)

C2_Witness ==
    /\ NoAbort(BhLoop)
    /\ lastValidBlockHeight = 100
    /\ BhLoop.results = <<99, 101>>
    /\ BhLoop.outcome = Rejected(SolanaErrorBlockHeightExceeded(101, 100))
    /\ BhLoop.issued = 2
    /\ BhLoop.timerFires = 1

\* C3: the promise of the block-height loop never resolves: whenever it is
\* settled, it is rejected.
C3_BlockHeightPromiseNeverResolves ==
    /\ BhLoop.outcome.state # "resolved"
    /\ BhLoop.pc = "done" => BhLoop.outcome.state = "rejected"

\* The loop left its while loop with the caller's signal aborted in between.
C3_Witness ==
    /\ BhLoop.pc = "done"
    /\ BhLoop.abortedWhile = "fetched"
    /\ BhLoop.pending = "none"
    /\ BhLoop.results # <<>>
    /\ Last(BhLoop.results) > lastValidBlockHeight
    /\ IsAbortRejection(BhLoop.outcome)

\* C4: a fetched status that carries a transaction error rejects the signature
\* loop at that fetch with the structured transaction error, whatever its
\* confirmationStatus, and no fetch or sleep is started afterwards.
C4_TransactionErrorRejectsAtOnce ==
    LET r == SigLoop
        n == Len(r.results) IN
    (Resumed(r) /\ n > 0 /\ r.results[n] # NullStatus /\ r.results[n].err \in TxErrs) =>
        /\ r.pc = "done"
        /\ r.outcome = Rejected(getSolanaErrorFromTransactionError(r.results[n].err))
        /\ r.issued = n
        /\ r.sleeps = n - 1

C4_Witness ==
    /\ SigLoop.pc = "done"
    /\ SigLoop.results # <<>>
    /\ Last(SigLoop.results).err = "InsufficientFunds"
    /\ Last(SigLoop.results).confirmationStatus = "finalized"
    /\ SigLoop.outcome.err.type = "transaction"
    /\ SigLoop.sleeps = 1

\* C5: once the caller's signal is aborted before the signature loop's promise
\* has settled (also before the call), the loop issues no further fetch, never
\* resolves, and settles only with the abort error.
C5_AbortStopsSignaturePolling ==
    LET r == SigLoop IN
    r.abortedWhile # "none" =>
        /\ r.issued = r.issuedAtAbort
        /\ r.outcome.state # "resolved"
        /\ r.pc = "done" => IsAbortRejection(r.outcome)

\* C6: aborting the caller's signal while a polling loop sleeps rejects the
\* loop's promise in that step, before the sleep timer fires, and the loop issues
\* no fetch after the abort.
C6_AbortDuringSleepRejectsAtOnce ==
    \A l \in Loops :
        loops[l].abortedWhile = "sleeping" =>
            /\ loops[l].pc = "done"
            /\ IsAbortRejection(loops[l].outcome)
            /\ loops[l].issued = loops[l].issuedAtAbort
            /\ loops[l].timerFires = loops[l].sleeps - 1

C6_Witness ==
    /\ SigLoop.abortedWhile = "sleeping"
    /\ SigLoop.sleeps = 2
    /\ SigLoop.timerFires = 1
    /\ SigLoop.pc = "done"

\* C7: called with an already aborted signal, the block-height loop rejects
\* with the abort error and never issues an epoch-info fetch.
C7_StartedAbortedIssuesNoFetch ==
    BhLoop.abortedWhile = "idle" =>
        /\ BhLoop.pc = "done"
        /\ IsAbortRejection(BhLoop.outcome)
        /\ BhLoop.issued = 0

C7_Witness ==
    /\ BhLoop.abortedWhile = "idle"
    /\ BhLoop.callerOf = "bhCaller"
    /\ aborted["bhCaller"]
    /\ BhLoop.pc = "done"

\* C8: a fetch that fails with a transport error rejects the loop's promise
\* with that same error; the fetch is not retried and no further fetch is issued.
C8_FetchErrorPropagatesUnchanged ==
    \A l \in Loops :
        LET r == loops[l] IN
        (r.fetchErr # "none" /\ Resumed(r)) =>
            /\ r.pc = "done"
            /\ r.outcome = Rejected(TransportError(r.fetchErr))
            /\ r.issued = Len(r.results) + 1
            /\ r.sleeps = Len(r.results)

C8_Witness ==
    /\ BhLoop.fetchErr = "o no"
    /\ BhLoop.pc = "done"
    /\ BhLoop.outcome = Rejected(TransportError("o no"))
    /\ BhLoop.issued = 2

\* The steps an attempt may take.
AttemptSteps ==
    {<<"idle", "Submitted">>, <<"Submitted", "Polling">>, <<"Submitted", "Failed">>,
     <<"Polling", "Confirmed">>, <<"Polling", "Expired">>, <<"Polling", "Failed">>}

\* What the caller sees agrees with the strategy that settled first.
AttemptOutcomeIsTheWinners ==
    /\ attempt \notin Terminal <=> reported = Pending
    /\ attempt = "Confirmed" =>
          /\ reported = Resolved
          /\ "sig" \in firstSettled
          /\ SigLoop.outcome = Resolved
    /\ attempt = "Expired" =>
          /\ reported.state = "rejected"
          /\ "bh" \in firstSettled
          /\ reported = BhLoop.outcome
    /\ attempt = "Failed" =>
          /\ reported.state = "rejected"
          /\ firstSettled = {} \/ \E w \in firstSettled : reported = loops[w].outcome
          /\ (firstSettled = {"sig"} /\ SigLoop.outcome.err.type = "transaction") =>
                reported = SigLoop.outcome

\* C9: a confirmation attempt surfaces exactly one outcome: it moves Submitted ->
\* Polling -> Confirmed (the signature strategy resolved first), Expired (the
\* block-height strategy rejected first) or Failed; a terminal state and the
\* reported outcome never change; the outcome of a strategy that settles after
\* the winner is never reported.
C9_ExactlyOneOutcome ==
    /\ []AttemptOutcomeIsTheWinners
    /\ [][/\ attempt' # attempt => <<attempt, attempt'>> \in AttemptSteps
          /\ attempt \in Terminal => (attempt' = attempt /\ reported' = reported)]_vars

\* The block-height strategy won; the signature strategy resolved after it.
C9_Witness ==
    /\ attempt = "Expired"
    /\ firstSettled = {"bh"}
    /\ SigLoop.outcome = Resolved
    /\ reported = BhLoop.outcome
    /\ reported.err.type = "blockHeightExceeded"

\* C10: once a strategy has settled the race, the other strategies are
\* cancelled through their abort signal and issue no further fetch.
C10_LosersStopAtOutcome ==
    /\ (attempt \in Terminal /\ firstSettled # {}) =>
          (aborted["race"] /\ \A l \in Loops : loops[l].ctrlAborted)
    /\ race.state # "pending" => \A l \in Loops : loops[l].issued = issuedAtOutcome[l]

\* C11: one call of sendAndPollToConfirmTransaction submits the transaction at
\* most once, whatever the strategies observe and however long the
\* confirmation takes; an attempt that failed before the race settled (the
\* submission was rejected) has started no polling strategy.
C11_SubmitsAtMostOnce ==
    /\ sendCount <= 1
    /\ attempt # "idle" => sendCount = 1
    /\ (attempt = "Failed" /\ race.state = "pending") =>
          \A l \in Loops : loops[l] = NewLoop

\* The attempt ended after both strategies polled as long as the bound allows.
C11_Witness ==
    /\ attempt \in Terminal
    /\ sendCount = 1
    /\ \A l \in Loops : loops[l].issued = MaxRaceFetch /\ loops[l].sleeps >= 1

\* The submission was rejected: no strategy ran.
C11_WitnessSubmissionFailed ==
    /\ attempt = "Failed"
    /\ sendCount = 1
    /\ reported = Rejected(TransportError("o no"))
    /\ \A l \in Loops : loops[l] = NewLoop

\* The boolean at JavaScript index `index` of an input array, a missing one
\* counting as false.
BoolAt(value, index) == index < Len(value) /\ value[index + 1]

\* C13: the default (backward = false) bit-array encoder of `size` gives exactly
\* `size` bytes, the booleans packed most significant bit first: bit 7 - j of
\* byte i is boolean 8 * i + j, an index past the end of the input counting as
\* false; with size 1, [true, false, true, false, false, false, false, false]
\* encodes to 0xa0.
C13_ForwardPacksMsbFirst ==
    (codec.op = "bitArrayEncode" /\ ~codec.backward) =>
        /\ Len(codec.encoded) = codec.size
        /\ \A i \in 0..(codec.size - 1), j \in 0..7 :
              (Bit(codec.encoded[i + 1], 7 - j) = 1) <=> BoolAt(codec.value, 8 * i + j)
        /\ (codec.size = 1
            /\ codec.value = ExampleBooleans) =>
              codec.encoded = <<160>>

\* The example of the claim, and an input shorter than 8 * size.
C13_Witness ==
    /\ codec.op = "bitArrayEncode"
    /\ ~codec.backward
    /\ codec.size = 1
    /\ codec.value = ExampleBooleans
    /\ codec.encoded = <<160>>

C13_WitnessShortInput ==
    /\ codec.op = "bitArrayEncode"
    /\ ~codec.backward
    /\ codec.size = 2
    /\ codec.value = <<FALSE, TRUE, TRUE>>
    /\ codec.encoded = <<96, 0>>

\* C14: with backward = true, bit j of byte i of the output is boolean
\* 8 * (size - 1 - i) + j (a missing one counting as false): the bytes come in
\* reverse group order, each least significant bit first; the decoder with
\* backward = true is the exact inverse; with size 1,
\* [true, false, true, false, false, false, false, false] encodes to 0x05.
C14_BackwardPacksLsbFirstReversed ==
    /\ (codec.op = "bitArrayEncode" /\ codec.backward) =>
          /\ Len(codec.encoded) = codec.size
          /\ \A i \in 0..(codec.size - 1), j \in 0..7 :
                (Bit(codec.encoded[i + 1], j) = 1)
                    <=> BoolAt(codec.value, 8 * (codec.size - 1 - i) + j)
          /\ codec.decoded = [k \in 1..(8 * codec.size) |-> BoolAt(codec.value, k - 1)]
          /\ (codec.size = 1
              /\ codec.value = ExampleBooleans) =>
                codec.encoded = <<5>>
    /\ (codec.op = "bitArrayDecode" /\ codec.backward) =>
          /\ Len(codec.decoded) = 8 * codec.size
          /\ codec.encoded = codec.bytes

\* Two bytes: the first boolean lands in bit 0 of the last byte, and decoding
\* gives the sixteen booleans back.
C14_Witness ==
    /\ codec.op = "bitArrayEncode"
    /\ codec.backward
    /\ codec.size = 2
    /\ codec.value = [k \in 1..16 |-> k = 2]
    /\ codec.encoded = <<0, 2>>
    /\ codec.decoded = codec.value

C14_WitnessExample ==
    /\ codec.op = "bitArrayEncode"
    /\ codec.backward
    /\ codec.size = 1
    /\ codec.value = ExampleBooleans
    /\ codec.encoded = <<5>>

C14_WitnessDecode ==
    /\ codec.op = "bitArrayDecode"
    /\ codec.backward
    /\ codec.bytes = <<160, 5>>
    /\ codec.encoded = <<160, 5>>

\* C15: the write of a bit-array encoder returns offset + size for every
\* offset >= 0, so that an encoder composed after it continues right after the
\* bit array.
C15_WriteReturnsOffsetPlusSize ==
    (codec.op = "bitArrayWrite" /\ codec.res.err = "none") =>
        codec.res.offset = codec.offset + codec.size

\* item.encode(v), and the encodings of the items of an array one after the other.
ItemEncoding(item, v) == ItemWrite(item, v, Zeros(ItemEncodedSize(item, v)), 0).bytes

RECURSIVE ItemsEncoding(_, _)
ItemsEncoding(item, array) ==
    IF array = <<>> THEN <<>>
    ELSE ItemEncoding(item, Head(array)) \o ItemsEncoding(item, Tail(array))

\* The buffer of an "arrayWrite" step with `encoding` in place at its offset.
WrittenAtOffset(encoding) ==
    [i \in 1..Len(codec.bytes) |->
        IF i > codec.offset /\ i <= codec.offset + Len(encoding)
            THEN encoding[i - codec.offset] ELSE codec.bytes[i]]

\* C16: with no size option the array encoder writes the number of items as a
\* 4-byte unsigned little-endian count and then the encodings of the items in
\* array order; the decoder reads the count and then exactly that many items;
\* with a u8 item, [1, 2, 3] encodes to 0x03000000010203.
C16_DefaultSizeIsU32Prefix ==
    /\ (codec.op = "arrayEncode" /\ codec.size = DefaultSize) =>
          /\ codec.enc.err = "none"
          /\ codec.enc.bytes = <<Len(codec.value), 0, 0, 0>>
                                   \o ItemsEncoding(codec.item, codec.value)
          /\ codec.dec = ReadOk(codec.value, Len(codec.enc.bytes))
          /\ (codec.item = "u8" /\ codec.value = <<1, 2, 3>>) =>
                codec.enc.bytes = <<3, 0, 0, 0, 1, 2, 3>>
    /\ (codec.op = "arrayWrite" /\ codec.size = DefaultSize) =>
          LET encoding == <<Len(codec.value), 0, 0, 0>>
                              \o ItemsEncoding(codec.item, codec.value) IN
          /\ codec.res = WriteOk(WrittenAtOffset(encoding), codec.offset + Len(encoding))
          /\ codec.back = ReadOk(codec.value, codec.res.offset)

\* The example of the claim.
C16_Witness ==
    /\ codec.op = "arrayEncode"
    /\ codec.size = DefaultSize
    /\ codec.item = "u8"
    /\ codec.value = <<1, 2, 3>>
    /\ codec.enc.bytes = <<3, 0, 0, 0, 1, 2, 3>>
    /\ codec.dec.value = <<1, 2, 3>>

\* Variable-size items at an offset, with a byte after them left unread.
C16_WitnessAtOffset ==
    /\ codec.op = "arrayWrite"
    /\ codec.size = DefaultSize
    /\ codec.item = "shortU16"
    /\ codec.value = <<300, 0>>
    /\ codec.offset = 1
    /\ codec.res.bytes = <<238, 2, 0, 0, 0, 172, 2, 0, 238>>
    /\ codec.back = ReadOk(<<300, 0>>, 8)

\* C17: with a literal size N the array encoder writes the items with no prefix
\* when the array has exactly N items (u8 item, size 3: [1, 2, 3] encodes to
\* 0x010203); an array of any other length raises the array-length error
\* before anything is written: the buffer and the offset stay as they were.
C17_LiteralSizeChecksLength ==
    /\ (codec.op = "arrayEncode" /\ codec.size.type = "number"
        /\ Len(codec.value) = codec.size.n) =>
          /\ codec.enc.err = "none"
          /\ codec.enc.bytes = ItemsEncoding(codec.item, codec.value)
          /\ (codec.item = "u8" /\ codec.value = <<1, 2, 3>>) =>
                codec.enc.bytes = <<1, 2, 3>>
    /\ (codec.op = "arrayWrite" /\ codec.size.type = "number") =>
          IF Len(codec.value) = codec.size.n
              THEN LET encoding == ItemsEncoding(codec.item, codec.value) IN
                   codec.res = WriteOk(WrittenAtOffset(encoding),
                                       codec.offset + Len(encoding))
              ELSE codec.res = WriteErr("InvalidNumberOfItems", codec.bytes, codec.offset)

\* The example of the claim.
C17_Witness ==
    /\ codec.op = "arrayEncode"
    /\ codec.size = NumberOfItems(3)
    /\ codec.item = "u8"
    /\ codec.value = <<1, 2, 3>>
    /\ codec.enc.bytes = <<1, 2, 3>>

\* Two items where three are asked for: the error, and an untouched buffer.
C17_WitnessWrongLength ==
    /\ codec.op = "arrayWrite"
    /\ codec.size = NumberOfItems(3)
    /\ codec.item = "u8"
    /\ codec.value = <<1, 2>>
    /\ codec.offset = 1
    /\ codec.res.err = "InvalidNumberOfItems"
    /\ codec.res.bytes = codec.bytes
    /\ codec.res.offset = 1

\* C18: an array codec with size 0 decodes every buffer at every offset to the
\* empty array and the unchanged offset, reading nothing; its fixed size is 0
\* whether the item codec is fixed-size or variable-size.
C18_SizeZeroReadsNothing ==
    (codec.op = "arrayRead" /\ codec.size = NumberOfItems(0)) =>
        /\ codec.res = ReadOk(<<>>, codec.offset)
        /\ codec.fixedSize = {0}

\* A variable-size item, and an offset past the end of an empty buffer.
C18_Witness ==
    /\ codec.op = "arrayRead"
    /\ codec.size = NumberOfItems(0)
    /\ codec.item = "shortU16"
    /\ codec.bytes = <<>>
    /\ codec.offset = 2
    /\ codec.res = ReadOk(<<>>, 2)
    /\ codec.fixedSize = {0}

\* A fixed-size item, and bytes left in the buffer.
C18_WitnessFixedItem ==
    /\ codec.op = "arrayRead"
    /\ codec.size = NumberOfItems(0)
    /\ codec.item = "u16"
    /\ codec.bytes = <<1, 5, 255>>
    /\ codec.offset = 1
    /\ codec.res = ReadOk(<<>>, 1)
    /\ codec.fixedSize = {0}

\* C19: with size 'remainder' no prefix is written or read: decoding at offset
\* o a buffer of length L, with an item codec of fixed size s and L - o a
\* multiple of s, gives the (L - o) / s items in order and the offset L.
C19_RemainderReadsToTheEnd ==
    /\ (codec.op = "arrayRead" /\ codec.size = Remainder
        /\ getFixedSize(codec.item) # {} /\ codec.offset <= Len(codec.bytes)
        /\ (Len(codec.bytes) - codec.offset) % NumberSize(codec.item) = 0) =>
          LET s == NumberSize(codec.item)
              n == (Len(codec.bytes) - codec.offset) \div s IN
          /\ codec.res.err = "none"
          /\ codec.res.offset = Len(codec.bytes)
          /\ Len(codec.res.value) = n
          /\ \A k \in 1..n :
                LittleEndian(codec.res.value[k], s)
                    = Slice(codec.bytes, codec.offset + (k - 1) * s, codec.offset + k * s)
    /\ (codec.op = "arrayEncode" /\ codec.size = Remainder) =>
          /\ codec.enc = WriteOk(ItemsEncoding(codec.item, codec.value),
                                 Len(ItemsEncoding(codec.item, codec.value)))
          /\ getFixedSize(codec.item) # {} =>
                codec.dec = ReadOk(codec.value, Len(codec.enc.bytes))
    /\ (codec.op = "arrayWrite" /\ codec.size = Remainder) =>
          LET encoding == ItemsEncoding(codec.item, codec.value) IN
          codec.res = WriteOk(WrittenAtOffset(encoding), codec.offset + Len(encoding))

\* Two u8 items after one byte that is skipped.
C19_Witness ==
    /\ codec.op = "arrayRead"
    /\ codec.size = Remainder
    /\ codec.item = "u8"
    /\ codec.bytes = <<1, 5, 255>>
    /\ codec.offset = 1
    /\ codec.res = ReadOk(<<5, 255>>, 3)

\* Three u16 items written without a prefix and read back.
C19_WitnessEncode ==
    /\ codec.op = "arrayEncode"
    /\ codec.size = Remainder
    /\ codec.item = "u16"
    /\ codec.value = <<1, 258, 65535>>
    /\ codec.enc.bytes = <<1, 0, 2, 1, 255, 255>>
    /\ codec.dec = ReadOk(<<1, 258, 65535>>, 6)

\* The constants of a list of void codecs, one after the other.
RECURSIVE SuffixEncoding(_)
SuffixEncoding(suffixes) ==
    IF suffixes = <<>> THEN <<>>
    ELSE Head(suffixes).constant \o SuffixEncoding(Tail(suffixes))

\* C20: the hidden-suffix encoder writes the main codec's encoding of the value
\* and then the encoding of every suffix codec in list order; the decoder
\* returns the main value alone, with an offset past the main value and all the
\* suffixes: the caller neither supplies nor receives a suffix value.
C20_HiddenSuffixAppendsAndDrops ==
    /\ codec.op = "hiddenSuffixWrite" =>
          LET encoding == ItemEncoding(codec.main, codec.value)
                              \o SuffixEncoding(codec.suffixes) IN
          /\ codec.res = WriteOk(WrittenAtOffset(encoding), codec.offset + Len(encoding))
          /\ codec.back = ReadOk(codec.value, codec.offset + Len(encoding))
    /\ codec.op = "hiddenSuffixEncode" =>
          /\ codec.enc.err = "none"
          /\ codec.enc.bytes = ItemEncoding(codec.main, codec.value)
                                   \o SuffixEncoding(codec.suffixes)
          /\ codec.dec = ReadOk(codec.value, Len(codec.enc.bytes))

\* A two-byte main value and two suffixes, written after one byte.
C20_Witness ==
    /\ codec.op = "hiddenSuffixWrite"
    /\ codec.main = "u16"
    /\ codec.value = 258
    /\ codec.suffixes = <<ConstantCodec(<<1, 2>>), ConstantCodec(<<9>>)>>
    /\ codec.offset = 1
    /\ codec.res = WriteOk(<<238, 2, 1, 1, 2, 9, 238>>, 6)
    /\ codec.back = ReadOk(258, 6)

\* The values an array codec of the given size option is made for.
InArrayDomain(size, item, array) ==
    /\ size.type = "number" => Len(array) = size.n
    /\ size.type = "remainder" => getFixedSize(item) # {}

\* C12: decode(encode(v)) = v for every value of the domain of each codec: the
\* bit-array codec on arrays of exactly 8 * size booleans, forward and
\* backward; the array codec with a count prefix, with a literal size N on
\* arrays of N items, and with 'remainder' over a fixed-size item; the bytes
\* codec on every byte string; the hidden-suffix codec on every value of its
\* main codec.
C12_RoundTrip ==
    /\ (codec.op = "bitArrayEncode" /\ Len(codec.value) = 8 * codec.size) =>
          codec.decoded = codec.value
    /\ (codec.op = "arrayEncode"
        /\ InArrayDomain(codec.size, codec.item, codec.value)) =>
          /\ codec.enc.err = "none"
          /\ codec.dec.err = "none"
          /\ codec.dec.value = codec.value
    /\ codec.op = "bytesEncode" =>
          /\ codec.enc.err = "none"
          /\ codec.dec.err = "none"
          /\ codec.dec.value = codec.value
    /\ codec.op = "hiddenSuffixEncode" =>
          /\ codec.enc.err = "none"
          /\ codec.dec.err = "none"
          /\ codec.dec.value = codec.value

\* Bytes through the bytes codec.
C12_Witness ==
    /\ codec.op = "bytesEncode"
    /\ codec.value = <<160, 0, 255>>
    /\ codec.enc.bytes = <<160, 0, 255>>
    /\ codec.dec.value = <<160, 0, 255>>

\* Sixteen booleans through the backward bit-array codec.
C12_WitnessBitArray ==
    /\ codec.op = "bitArrayEncode"
    /\ codec.backward
    /\ codec.size = 2
    /\ codec.value = [k \in 1..16 |-> k # 11]
    /\ codec.encoded = <<251, 255>>
    /\ codec.decoded = codec.value

\* Variable-size items behind a one-byte count.
C12_WitnessArray ==
    /\ codec.op = "arrayEncode"
    /\ codec.size = PrefixSize("u8")
    /\ codec.item = "shortU16"
    /\ codec.value = <<128, 0, 300>>
    /\ codec.enc.bytes = <<3, 128, 1, 0, 172, 2>>
    /\ codec.dec.value = codec.value

\* A value behind which three void codecs are hidden.
C12_WitnessHiddenSuffix ==
    /\ codec.op = "hiddenSuffixEncode"
    /\ codec.main = "shortU16"
    /\ codec.value = 300
    /\ Len(codec.suffixes) = 3
    /\ codec.enc.bytes = <<172, 2, 9, 1, 2>>
    /\ codec.dec.value = 300

\* C21: once the promise of a polling function has settled, no abort listener
\* the function registered during the call is still registered on the caller's
\* signal, however many sleeps the loop went through and whichever way it ended.
C21_NoListenerOutlivesThePromise ==
    \A l \in Loops :
        loops[l].outcome.state # "pending" =>
            /\ ~loops[l].handleAbortReg
            /\ loops[l].sleepListeners = 0

\* The function was called with a signal that was already aborted.
AbortedAtCall(l) == loops[l].abortedWhile = "idle"

\* C22 as stated: on every exit of a polling function, a call with an already
\* aborted signal included, the cleanup runs exactly once: one removal of the
\* chained handler, and the internal controller aborted when the promise settles.
C22_CleanupExactlyOnceOnEveryExit ==
    \A l \in Loops :
        /\ loops[l].removeCalls <= 1
        /\ loops[l].outcome.state # "pending" =>
              /\ loops[l].removeCalls = 1
              /\ loops[l].ctrlAborted
              /\ ~loops[l].handleAbortReg

\* C22, amended: the cleanup runs exactly once on every exit of a polling
\* function that registered its handler; the block-height function called with
\* an already aborted signal rejects before it creates the controller or
\* registers the handler, and no cleanup runs.
C22_CleanupExactlyOnceOnceStarted ==
    \A l \in Loops :
        /\ loops[l].removeCalls <= 1
        /\ loops[l].outcome.state # "pending" =>
              IF l = "bh" /\ AbortedAtCall(l)
                  THEN /\ loops[l].removeCalls = 0
                       /\ ~loops[l].ctrlAborted
                       /\ ~loops[l].handleAbortReg
                       /\ loops[l].issued = 0
                       /\ loops[l].sleepListeners = 0
                  ELSE /\ loops[l].removeCalls = 1
                       /\ loops[l].ctrlAborted
                       /\ ~loops[l].handleAbortReg

\* The block-height loop was aborted during its second sleep.
C22_Witness ==
    /\ BhLoop.outcome = Rejected(AbortError("caller"))
    /\ BhLoop.abortedWhile = "sleeping"
    /\ BhLoop.sleeps = 2
    /\ BhLoop.removeCalls = 1
    /\ BhLoop.ctrlAborted

\* The block-height function was called with an aborted signal.
C22_WitnessAbortedAtCall ==
    /\ BhLoop.outcome = Rejected(AbortError("caller"))
    /\ AbortedAtCall("bh")
    /\ BhLoop.removeCalls = 0

\* C23: in the recent-signature loop every signature-status request is issued
\* with the signal of the loop's controller, so that an abort of the caller's
\* signal while a request is in flight aborts the request itself.
C23_SignatureFetchCarriesControllerSignal ==
    SigLoop.issued > 0 =>
        /\ FetchSignal("sig") = "controller"
        /\ SigLoop.abortedWhile = "fetching" => SigLoop.requestsAborted = 1

\* The loop is between its call and its exit.
Active(r) == r.pc \in {"fetching", "fetched", "sleeping"}

\* C24: in the block-height loop every epoch-info request is sent with the
\* signal of the internal controller; that signal is not aborted while the loop
\* runs un-cancelled; it becomes aborted in the step in which the caller's
\* signal aborts while the loop is active, and a request in flight is aborted
\* with it.
C24_EpochInfoFetchCarriesControllerSignal ==
    /\ [](BhLoop.issued > 0 => FetchSignal("bh") = "controller")
    /\ []((Active(BhLoop) /\ NoAbort(BhLoop)) =>
             (~BhLoop.ctrlAborted /\ BhLoop.requestsAborted = 0))
    /\ [][(/\ Active(BhLoop)
           /\ ~aborted[BhLoop.callerOf]
           /\ aborted'[BhLoop.callerOf]) =>
             /\ loops'["bh"].ctrlAborted
             /\ BhLoop.pc = "fetching" =>
                   loops'["bh"].requestsAborted = BhLoop.requestsAborted + 1]_vars

\* The caller aborted during the second epoch-info request.
C24_Witness ==
    /\ BhLoop.abortedWhile = "fetching"
    /\ BhLoop.issued = 2
    /\ BhLoop.ctrlAborted
    /\ BhLoop.requestsAborted = 1
    /\ BhLoop.outcome = Rejected(AbortError("controller"))

\* Fetches of a loop that have settled: with a value, or with an error.
SettledFetches(r) == Len(r.results) + (IF r.fetchErr # "none" THEN 1 ELSE 0)

\* C25: the fetches of one polling loop are strictly sequential: at most one is
\* in flight at any moment, and a fetch other than the first is issued only
\* after the previous one has settled and a full sleep has elapsed since (the
\* loop was sleeping and its timer fires in that step).
C25_FetchesAreSequential ==
    /\ [](\A l \in Loops :
             /\ loops[l].issued <= SettledFetches(loops[l]) + 1
             /\ loops[l].pc = "fetching" => loops[l].issued = SettledFetches(loops[l]) + 1
             /\ loops[l].timerFires <= loops[l].sleeps)
    /\ [][\A l \in Loops :
             loops'[l].issued # loops[l].issued =>
                 /\ loops'[l].issued = loops[l].issued + 1
                 /\ \/ loops[l].issued = 0
                    \/ /\ loops[l].pc = "sleeping"
                       /\ Len(loops[l].results) = loops[l].issued
                       /\ loops[l].sleeps = loops[l].issued
                       /\ loops'[l].timerFires = loops[l].timerFires + 1
                       /\ loops'[l].timerFires = loops[l].sleeps]_vars

\* A third fetch in flight after two sleeps.
C25_Witness ==
    /\ SigLoop.pc = "fetching"
    /\ SigLoop.issued = 3
    /\ Len(SigLoop.results) = 2
    /\ SigLoop.sleeps = 2
    /\ SigLoop.timerFires = 2

\* C26: when the caller's signal has been aborted by the time the block-height
\* loop would report expiry, the promise rejects with the abort error and never
\* with the block-height-exceeded error.
C26_AbortBeatsExpiry ==
    BhLoop.outcome.state # "pending" =>
        /\ BhLoop.outcome.err.type = "blockHeightExceeded" => NoAbort(BhLoop)
        /\ (/\ ~NoAbort(BhLoop)
            /\ BhLoop.fetchErr = "none"
            /\ BhLoop.results # <<>>
            /\ ~KeepsPolling(Last(BhLoop.results), lastValidBlockHeight)) =>
              IsAbortRejection(BhLoop.outcome)

\* The abort landed between the settlement of the fetch that delivered a height
\* above the ceiling and the continuation of the loop.
C26_Witness ==
    /\ BhLoop.abortedWhile = "fetched"
    /\ BhLoop.results = <<101>>
    /\ lastValidBlockHeight = 100
    /\ BhLoop.outcome = Rejected(AbortError("caller"))

C28_FactoryIntervalReachesTheLoops ==
    \A l \in Loops :
        (/\ factoryPollingInterval # NoInterval
         /\ loops[l].callerOf = "race"
         /\ loops[l].sleeps > 0) =>
            loops[l].timerDelay = factoryPollingInterval

\* Bytes of the encoding of one item / of a count under a number codec.
ExpectedNumberBytes(item, v) ==
    IF item = "u8" THEN 1
    ELSE IF item = "u16" THEN 2
    ELSE IF item = "u32" THEN 4
    ELSE IF v < 128 THEN 1 ELSE IF v < 16384 THEN 2 ELSE 3

RECURSIVE ExpectedItemsBytes(_, _)
ExpectedItemsBytes(item, array) ==
    IF array = <<>> THEN 0
    ELSE ExpectedNumberBytes(item, Head(array)) + ExpectedItemsBytes(item, Tail(array))

\* C29: the array encoder has a fixed size, item fixed size x N, exactly when
\* the size option is a literal N and the item is fixed-size (and the fixed
\* size 0 when N is 0); in every other case it is variable-size and
\* getSizeFromValue(array) is the size of the count prefix (0 without a prefix
\* codec) plus the sum of the encoded sizes of the items, which is the number
\* of bytes by which write advances the offset for that array.
C29_ArrayEncoderSize ==
    codec.op = "arrayWrite" =>
        LET literal == codec.size.type = "number"
            fixedItem == codec.item \in {"u8", "u16"}
            prefix == IF codec.size.type = "object"
                          THEN ExpectedNumberBytes(codec.size.prefix, Len(codec.value))
                          ELSE 0 IN
        /\ codec.fixedSize # {} <=> (literal /\ (fixedItem \/ codec.size.n = 0))
        /\ (literal /\ fixedItem) =>
              codec.fixedSize = {ExpectedNumberBytes(codec.item, 0) * codec.size.n}
        /\ (literal /\ codec.size.n = 0) => codec.fixedSize = {0}
        /\ codec.fixedSize = {} =>
              /\ codec.sizeFromValue = prefix + ExpectedItemsBytes(codec.item, codec.value)
              /\ codec.res.err = "none" =>
                    codec.res.offset - codec.offset = codec.sizeFromValue

\* A variable-size case: two shortU16 items of 2 and 1 bytes under a u8 count,
\* written at offset 1.
C29_Witness ==
    /\ codec.op = "arrayWrite"
    /\ codec.size = PrefixSize("u8")
    /\ codec.item = "shortU16"
    /\ codec.value = <<128, 0>>
    /\ codec.offset = 1
    /\ codec.fixedSize = {}
    /\ codec.sizeFromValue = 4
    /\ codec.res.err = "none"
    /\ codec.res.offset = 5

\* A fixed-size case: three u16 items under the literal size 3.
C29_WitnessFixed ==
    /\ codec.op = "arrayWrite"
    /\ codec.size = NumberOfItems(3)
    /\ codec.item = "u16"
    /\ codec.fixedSize = {6}
    /\ codec.res.err = "none"
    /\ codec.res.offset - codec.offset = 6

\* C30: with a count-prefix size option and no bytes left at the offset
\* (offset >= length of the buffer) the array decoder returns the empty array
\* and the offset it was given, without reading the prefix and without a
\* not-enough-bytes error; so an absent array decodes to the value an encoded
\* empty array (a count of zero) decodes to.
C30_AbsentArrayDecodesAsEmpty ==
    (codec.op = "arrayRead" /\ codec.size.type = "object") =>
        LET n == ExpectedNumberBytes(codec.size.prefix, 0)
            count == [i \in 1..n |-> IF codec.offset + i <= Len(codec.bytes)
                                        THEN codec.bytes[codec.offset + i] ELSE 1] IN
        /\ codec.offset >= Len(codec.bytes) =>
              /\ codec.res.err = "none"
              /\ codec.res.value = <<>>
              /\ codec.res.offset = codec.offset
        /\ (\A i \in 1..n : count[i] = 0) =>
              /\ codec.res.err = "none"
              /\ codec.res.value = <<>>
              /\ codec.res.offset = codec.offset + n

\* The decoder was handed a buffer of two bytes at offset 2: nothing is left
\* for the u8 count.
C30_Witness ==
    /\ codec.op = "arrayRead"
    /\ codec.size = PrefixSize("u8")
    /\ codec.item = "u16"
    /\ codec.bytes = <<1, 5>>
    /\ codec.offset = 2
    /\ codec.res = ReadOk(<<>>, 2)

\* The encoded empty array: a u8 count of zero.
C30_WitnessZeroCount ==
    /\ codec.op = "arrayRead"
    /\ codec.size = PrefixSize("u8")
    /\ codec.item = "u16"
    /\ codec.bytes = <<1, 0>>
    /\ codec.offset = 1
    /\ codec.res = ReadOk(<<>>, 2)

\* An offset past the end of the buffer, under the default u32 count.
C30_WitnessPastTheEnd ==
    /\ codec.op = "arrayRead"
    /\ codec.size = DefaultSize
    /\ codec.bytes = <<>>
    /\ codec.offset = 3
    /\ codec.res = ReadOk(<<>>, 3)

====
